---- MODULE Spec2Model ----
(***************************************************************************)
(* Model of repros/issue-2117/try.py: a straight-line module body that     *)
(* builds a pandas DataFrame, selects two of its columns twice, binds one  *)
(* selection to an annotated name and calls reveal_type after each         *)
(* binding.  One action per statement; pc is the line of the statement to  *)
(* be executed next.  The run-time values of the four names and the type   *)
(* the checker has inferred for each of them are tracked side by side.     *)
(*                                                                         *)
(* The cell values of the literal rows of line 4 are generalised: Init     *)
(* draws them from 1..MaxVal, the literal [[1,2,3],[4,5,6]] being one of   *)
(* the choices (LiteralData).  The shape of the literal (NumRows rows of   *)
(* RowLen values), the column names and the selection keys are those of    *)
(* the file.                                                               *)
(***************************************************************************)
EXTENDS Integers, Sequences, FiniteSets, TLC

\* ------------------------------------------------------------------ bounds

\* largest cell value drawn for the literal rows
MaxVal == 6

\* --------------------------------------------------- literals of the file

\* line 4: the literal has two rows ...
NumRows == 2
\* ... of three values each
RowLen == 3
\* line 4 with a column index one name short, pd.Index(["a", "b"])
ColumnNames_TwoNames == <<"a", "b">>
\* line 4: pd.Index(["a", "b", "c"])
ColumnNames == <<"a", "b", "c">>
\* line 4: the literal [[1, 2, 3], [4, 5, 6]]
LiteralData == << <<1, 2, 3>>, <<4, 5, 6>> >>

\* line 6: the key of the first selection, ["a", "b"]
Key6 == <<"a", "b">>

\* line 8 with another key, my_df[["a", "c"]]
Key8_OtherKey == <<"a", "c">>
\* line 8: the key of the second selection, ["a", "b"]
Key8 == <<"a", "b">>

\* line of the first statement of the module body
FirstPc == 4
\* the position past the last statement (line 11)
EndPc == 12

\* the names the module body binds, in the order it binds them
Names == <<"my_df", "other_df", "other_df2", "new_df">>

\* ----------------------------------------------------------------- values

\* a name that has not been bound yet
Unbound == [kind |-> "Unbound", columns |-> <<>>, rows |-> <<>>]

\* the row data Init draws: NumRows rows of RowLen cells
Cells == 1..MaxVal
RowData == [1..NumRows -> [1..RowLen -> Cells]]

Range(s) == {s[i] : i \in 1..Len(s)}

\* position of column name c in the column index cols (0 when absent)
IndexOf(cols, c) ==
    IF c \in Range(cols) THEN CHOOSE i \in 1..Len(cols) : cols[i] = c ELSE 0

\* pd.DataFrame(data, columns=...): a table of the rows under the column
\* names; a row whose length differs from the number of names is a ValueError
DataFrame(data, columns) ==
    IF \A r \in 1..Len(data) : Len(data[r]) = Len(columns)
    THEN [kind |-> "DataFrame", columns |-> columns, rows |-> data]
    ELSE [kind |-> "ValueError", columns |-> <<>>, rows |-> <<>>]

\* selection that keeps the first Len(key) columns by position, whatever the
\* key names, and labels them with the following names
GetItem_ByPosition(df, key) ==
    IF \A k \in 1..Len(key) : key[k] \in Range(df.columns)
    THEN [kind |-> "DataFrame",
          columns |-> key,
          rows |-> [r \in 1..Len(df.rows) |->
                      [k \in 1..Len(key) |-> df.rows[r][k + 1]]]]
    ELSE [kind |-> "KeyError", columns |-> <<>>, rows |-> <<>>]
\* df[key] with a list of column names: a new table with the key's columns,
\* in the key's order, every row kept; a name that is no column is a KeyError
GetItem(df, key) ==
    IF \A k \in 1..Len(key) : key[k] \in Range(df.columns)
    THEN [kind |-> "DataFrame",
          columns |-> key,
          rows |-> [r \in 1..Len(df.rows) |->
                      [k \in 1..Len(key) |->
                          df.rows[r][IndexOf(df.columns, key[k])]]]]
    ELSE [kind |-> "KeyError", columns |-> <<>>, rows |-> <<>>]

IsError(v) == v.kind \in {"ValueError", "KeyError"}

\* ------------------------------------------------- the checker's inference

\* the type inferred for the call pd.DataFrame(...)
InferCall == "DataFrame"

\* a checker that infers a union for the column-list subscript
InferSubscript_Union(selfType) ==
    IF selfType = "DataFrame" THEN "Series | DataFrame" ELSE "Unknown"
\* the type inferred for a subscript of a table by a list of column names
InferSubscript(selfType) ==
    IF selfType = "DataFrame" THEN "DataFrame" ELSE "Unknown"

\* the type of a name declared with an annotation and assigned a value
InferAnnotated(declared, valueType) ==
    IF valueType = declared THEN valueType ELSE declared

\* ------------------------------------------------------------------ state

VARIABLES
    pc,         \* line of the next statement; EndPc past the last one
    data,       \* the literal rows handed to pd.DataFrame on line 4
    my_df,      \* value bound to my_df
    other_df,   \* value bound to other_df
    other_df2,  \* value bound to other_df2
    new_df,     \* value bound to new_df
    inferred,   \* the checker's type for each name
    revealed,   \* the reveal_type reports so far, in order
    err         \* the exception that ended the run, "none" while none has

vars == <<pc, data, my_df, other_df, other_df2, new_df, inferred, revealed, err>>

Init ==
    /\ pc = FirstPc
    /\ data \in RowData
    /\ my_df = Unbound
    /\ other_df = Unbound
    /\ other_df2 = Unbound
    /\ new_df = Unbound
    /\ inferred = [n \in Range(Names) |-> "Unbound"]
    /\ revealed = <<>>
    /\ err = "none"

Running == err = "none"

\* --------------------------------------------------------------- statements

\* line 4: my_df = pd.DataFrame([[..], [..]], columns=pd.Index(["a", "b", "c"]))
Stmt4 ==
    /\ Running /\ pc = 4
    /\ LET v == DataFrame(data, ColumnNames)
       IN  IF IsError(v)
           THEN /\ err' = v.kind
                /\ UNCHANGED <<pc, my_df, inferred>>
           ELSE /\ my_df' = v
                /\ inferred' = [inferred EXCEPT !["my_df"] = InferCall]
                /\ pc' = 5
                /\ err' = err
    /\ UNCHANGED <<data, other_df, other_df2, new_df, revealed>>

\* reveal_type that consumes its argument: the name is unbound afterwards
RevealType_Consumes(line, name, value) ==
    /\ Running /\ pc = line
    /\ IF value.kind = "Unbound"
       THEN /\ err' = "NameError"
            /\ UNCHANGED <<pc, revealed>>
       ELSE /\ revealed' = Append(revealed, [name |-> name, type |-> inferred[name]])
            /\ pc' = line + 1
            /\ err' = err
    /\ IF name = "other_df" THEN other_df' = Unbound ELSE other_df' = other_df
    /\ UNCHANGED <<data, my_df, other_df2, new_df, inferred>>
\* reveal_type(name): reports the type of the name and binds nothing; reading
\* a name that is not bound yet is a NameError
RevealType(line, name, value) ==
    /\ Running /\ pc = line
    /\ IF value.kind = "Unbound"
       THEN /\ err' = "NameError"
            /\ UNCHANGED <<pc, revealed>>
       ELSE /\ revealed' = Append(revealed, [name |-> name, type |-> inferred[name]])
            /\ pc' = line + 1
            /\ err' = err
    /\ UNCHANGED <<data, my_df, other_df, other_df2, new_df, inferred>>

\* line 5: reveal_type(my_df)
Stmt5 == RevealType(5, "my_df", my_df)

\* line 6 with a selection that drops the unselected columns from my_df itself
Stmt6_InPlace ==
    /\ Running /\ pc = 6
    /\ LET v == GetItem(my_df, Key6)
       IN  IF IsError(v)
           THEN /\ err' = v.kind
                /\ UNCHANGED <<pc, my_df, other_df, inferred>>
           ELSE /\ other_df' = v
                /\ my_df' = v
                /\ inferred' = [inferred EXCEPT
                                  !["other_df"] = InferSubscript(inferred["my_df"])]
                /\ pc' = 7
                /\ err' = err
    /\ UNCHANGED <<data, other_df2, new_df, revealed>>
\* line 6: other_df = my_df[["a", "b"]]
Stmt6 ==
    /\ Running /\ pc = 6
    /\ LET v == GetItem(my_df, Key6)
       IN  IF IsError(v)
           THEN /\ err' = v.kind
                /\ UNCHANGED <<pc, other_df, inferred>>
           ELSE /\ other_df' = v
                /\ inferred' = [inferred EXCEPT
                                  !["other_df"] = InferSubscript(inferred["my_df"])]
                /\ pc' = 7
                /\ err' = err
    /\ UNCHANGED <<data, my_df, other_df2, new_df, revealed>>

\* line 7 asking for the type of the source table again
Stmt7_RevealsSource == RevealType(7, "my_df", my_df)
\* line 7: reveal_type(other_df)
Stmt7 == RevealType(7, "other_df", other_df)

\* lines 8 and 9 swapped: reveal_type(other_df2) before other_df2 is bound
Stmt8_RevealFirst == RevealType(8, "other_df2", other_df2)
\* line 8: other_df2 = my_df[["a", "b"]]
Stmt8 ==
    /\ Running /\ pc = 8
    /\ LET v == GetItem(my_df, Key8)
       IN  IF IsError(v)
           THEN /\ err' = v.kind
                /\ UNCHANGED <<pc, other_df2, inferred>>
           ELSE /\ other_df2' = v
                /\ inferred' = [inferred EXCEPT
                                  !["other_df2"] = InferSubscript(inferred["my_df"])]
                /\ pc' = 9
                /\ err' = err
    /\ UNCHANGED <<data, my_df, other_df, new_df, revealed>>

\* line 9: reveal_type(other_df2)
Stmt9 == RevealType(9, "other_df2", other_df2)

\* line 10 binding the source table instead of the selection
Stmt10_WrongSource ==
    /\ Running /\ pc = 10
    /\ new_df' = my_df
    /\ inferred' = [inferred EXCEPT
                      !["new_df"] = InferAnnotated("DataFrame", inferred["my_df"])]
    /\ pc' = 11
    /\ UNCHANGED <<data, my_df, other_df, other_df2, revealed, err>>
\* line 10: new_df: pd.DataFrame = other_df
Stmt10 ==
    /\ Running /\ pc = 10
    /\ IF other_df.kind = "Unbound"
       THEN /\ err' = "NameError"
            /\ UNCHANGED <<pc, new_df, inferred>>
       ELSE /\ new_df' = other_df
            /\ inferred' = [inferred EXCEPT
                              !["new_df"] = InferAnnotated("DataFrame", inferred["other_df"])]
            /\ pc' = 11
            /\ err' = err
    /\ UNCHANGED <<data, my_df, other_df, other_df2, revealed>>

\* line 11: reveal_type(new_df)
Stmt11 == RevealType(11, "new_df", new_df)

Next ==
    \/ Stmt4
    \/ Stmt5
    \/ Stmt6
    \/ Stmt7
    \/ Stmt8
    \/ Stmt9
    \/ Stmt10
    \/ Stmt11

Spec == Init /\ [][Next]_vars

\* the interpreter runs the module body to its end without suspending
FairSpec == Spec /\ WF_vars(Next)

\* ------------------------------------------------------------- properties

Bound(v) == v.kind = "DataFrame"

\* the names reveal_type has been called on, in call order
RevealedNames == [i \in 1..Len(revealed) |-> revealed[i].name]

HasRevealed(n) == \E i \in 1..Len(revealed) : revealed[i].name = n

\* the value of column c in row r of table df
Cell(df, r, c) == df.rows[r][IndexOf(df.columns, c)]

C2_BothSelectionsBeforeReveals ==
    data = LiteralData =>
    /\ HasRevealed("my_df") => Bound(my_df)
    /\ (Bound(other_df) \/ Bound(other_df2)) => HasRevealed("my_df")
    /\ (HasRevealed("other_df") \/ HasRevealed("other_df2"))
          => (Bound(other_df) /\ Bound(other_df2))
    /\ Bound(new_df) => (HasRevealed("other_df") /\ HasRevealed("other_df2"))
    /\ HasRevealed("new_df") => Bound(new_df)

\* C2 amended: bindings and type requests alternate, name by name, in the
\* order my_df, other_df, other_df2, new_df: each name is bound, then its
\* type is requested, before the next name is bound.  The second selection
\* comes after the type of the first selection result has been requested.
C2_BindRevealAlternate ==
    LET vals == <<my_df, other_df, other_df2, new_df>>
        nb == Cardinality({i \in 1..4 : Bound(vals[i])})
        nr == Len(revealed)
    IN  /\ \A i \in 1..4 : Bound(vals[i]) <=> i <= nb
        /\ RevealedNames = SubSeq(Names, 1, nr)
        /\ nr <= nb
        /\ nb <= nr + 1

C2_Witness ==
    /\ pc = 8
    /\ HasRevealed("other_df")
    /\ Bound(other_df)
    /\ ~Bound(other_df2)

\* a step to the next line that raises nothing
LineStep == pc' = pc + 1 /\ err' = "none"

\* C3: the run is one straight line: every step moves to the next line
\* without an exception (so no reveal_type reads an unbound name), the run
\* reaches the end of the file, and at the end exactly four reveal_type
\* calls have been made, on my_df, other_df, other_df2, new_df in that order.
C3_StraightLine ==
    /\ [][LineStep]_vars
    /\ [](err # "NameError")
    /\ [](pc = EndPc => (Len(revealed) = 4 /\ RevealedNames = Names))
    /\ <>(pc = EndPc)

C3_Witness ==
    /\ pc = EndPc
    /\ err = "none"
    /\ RevealedNames = <<"my_df", "other_df", "other_df2", "new_df">>

\* the table sel has exactly the columns a, b, as many rows as src, and in
\* every row the values src has for a and b
IsSelectionAB(sel, src) ==
    /\ sel.kind = "DataFrame"
    /\ sel.columns = <<"a", "b">>
    /\ Len(sel.rows) = Len(src.rows)
    /\ \A r \in 1..Len(src.rows) :
          /\ Len(sel.rows[r]) = 2
          /\ Cell(sel, r, "a") = Cell(src, r, "a")
          /\ Cell(sel, r, "b") = Cell(src, r, "b")

\* C4: once bound, other_df and other_df2 are each a table with exactly the
\* columns a, b in that order, as many rows as my_df, and in each row the
\* values my_df has for a and b in the corresponding row.
C4_SelectionContents ==
    /\ other_df # Unbound => IsSelectionAB(other_df, my_df)
    /\ other_df2 # Unbound => IsSelectionAB(other_df2, my_df)

C4_Witness ==
    /\ data = LiteralData
    /\ other_df.rows = << <<1, 2>>, <<4, 5>> >>
    /\ other_df2.rows = << <<1, 2>>, <<4, 5>> >>
    /\ other_df2.columns = <<"a", "b">>

\* C5: no run ends in an error: every name of both selection keys is a
\* column name of the table, every literal row has as many values as there
\* are column names, and no statement raises.
C5_NoError ==
    /\ \A k \in 1..Len(Key6) : Key6[k] \in Range(ColumnNames)
    /\ \A k \in 1..Len(Key8) : Key8[k] \in Range(ColumnNames)
    /\ \A r \in 1..Len(data) : Len(data[r]) = Len(ColumnNames)
    /\ err = "none"
    /\ ~IsError(my_df) /\ ~IsError(other_df) /\ ~IsError(other_df2)

C5_Witness ==
    /\ pc > 8
    /\ err = "none"
    /\ Bound(my_df) /\ Bound(other_df) /\ Bound(other_df2)

\* what a step from line 10 does to the four names
AssignStep ==
    pc = 10 => /\ new_df' = other_df
               /\ new_df' = other_df'
               /\ UNCHANGED <<my_df, other_df, other_df2>>

\* C6: the statement of line 10 binds new_df to the value other_df holds
\* and leaves my_df, other_df and other_df2 as they were.
C6_AssignFrame == [][AssignStep]_vars

C6_Witness ==
    /\ pc = 11
    /\ Bound(new_df)
    /\ new_df = other_df
    /\ new_df # my_df

\* what a step from line 6 or line 8 does to my_df and other_df
SelectStep ==
    pc \in {6, 8} => /\ my_df' = my_df
                     /\ Len(my_df'.rows) = 2
                     /\ my_df'.columns = <<"a", "b", "c">>
                     /\ \A r \in 1..2 : \A c \in 1..3 : my_df'.rows[r][c] = data[r][c]
                     /\ (pc = 8 => other_df' = other_df)

\* C7: each selection (lines 6 and 8) leaves my_df as it was: 2 rows, the 3
\* columns a, b, c and the values it was built from; and the second
\* selection leaves other_df as it was.
C7_SelectionFrame == [][SelectStep]_vars

C7_Witness ==
    /\ pc = 9
    /\ Bound(other_df) /\ Bound(other_df2)
    /\ my_df.columns = <<"a", "b", "c">>
    /\ my_df.rows = data

RevealStep ==
    pc \in {5, 7, 9, 11} => UNCHANGED <<my_df, other_df, other_df2, new_df>>

\* C9: a reveal_type statement (lines 5, 7, 9, 11) leaves my_df, other_df,
\* other_df2 and new_df exactly as they were before it.
C9_RevealFrame == [][RevealStep]_vars

C9_Witness ==
    /\ pc = 8
    /\ Len(revealed) = 2
    /\ revealed[2].name = "other_df"
    /\ Bound(other_df)

====
